---- MODULE Spec2Model ----
(***************************************************************************)
(* A model of the litescript transpiler: the text-rewriting passes of      *)
(* src/src/features (variables, functions, codeblocks, arrays, log) that   *)
(* transpile of src/src/transpiler.js applies one after the other.         *)
(*                                                                         *)
(* Program text is a string.  Offsets are 0-based, as in the JavaScript    *)
(* source; CharAt and Substring translate them to the 1-based SubSeq.      *)
(* The backtick, the third quote character the source accepts, cannot be   *)
(* written in a string of this language: the model's texts use the two     *)
(* other quote characters, which the source treats in the same branches.   *)
(***************************************************************************)
EXTENDS Integers, Sequences, FiniteSets, TLC

VARIABLES
    aIn,        \* transformArrays: the text the first run was called with
    output,     \* transformArrays: `output`, the buffer being rewritten
    changed,    \* transformArrays: `changed`
    pass,       \* transformArrays: `pass`
    aPc,        \* transformArrays: "idle", "loop" (at the while test), "done"
    aRun,       \* which call of transformArrays this is (1, or 2: on its own output)
    before,     \* the buffer as the latest pass scanned it
    lastEdit,   \* the allMatches entry the latest pass applied, <<>> when none
    aRet        \* how the call ended: <<>> while it runs, then
                \* [tag |-> "return", value |-> text, error |-> ""]; a throw
                \* would be [tag |-> "throw", value |-> "", error |-> name]

VARIABLES
    lSource,    \* transformLog: `source`, the text the call was given
    lOutput,    \* transformLog: `output`
    lMatches,   \* transformLog: the offsets of `matches`, in text order
    li,         \* transformLog: `i`, the index (from 1) of the match to process next
    lPc,        \* transformLog: "idle", "loop", "done"
    lRun,       \* which call of transformLog this is (1, or 2: on its own output)
    lRet        \* how the call ended, as aRet

VARIABLES
    vSource,      \* transformVariables: `source`
    vLines,       \* transformVariables: `lines`
    vi,           \* transformVariables: `i`
    declaredVars, \* transformVariables: `declaredVars`
    vResult,      \* transformVariables: `result`
    vPc,          \* transformVariables: "idle", "loop", "done"
    vRet          \* how the call ended, as aRet

VARIABLES
    bPass,      \* the structural pass that runs: "functions", "codeblocks", "" when none
    bSource,    \* transformFunctions / transformCodeBlocks: `source`
    bLines,     \* `lines`
    bi,         \* `i`
    bStack,     \* `functionStack` / `indentStack`, the top last
    bResult,    \* `result`
    bPc,        \* "idle", "loop", "done"
    bRet        \* how the call ended, as aRet

VARIABLES
    rArgs,      \* the integer arguments of a range call: <<a, b>> or <<a, b, s>>
    rText,      \* the text the range rule generates for them
    rValue,     \* what that text evaluates to: [tag |-> "return", value |-> array],
                \* or [tag |-> "throw", error |-> name]
    rPc         \* "idle", "call", "expanded", "done"

VARIABLES
    tSource,    \* transpile: `source`
    tOutput,    \* transpile: `output`
    tPc,        \* transpile: "idle", then the statement to execute next:
                \* "variables", "functions", "codeblocks", "arrays", "log", "return"; "done"
    tCalls,     \* the calls transpile has made: [pass, input, output] each
    tRet        \* how the call ended, as aRet

VARIABLES
    wPc,        \* watch: "idle" (not called); the statement of execute() that runs
                \* next: "read", "transpile", "execute", "catch"; "waiting" when no
                \* handler runs; "dead" when no handler will run any more
    wCycle,     \* the event whose cycle runs: 0 for the initial call, -1 for none
    wFired,     \* how many change events chokidar has emitted
    wPending,   \* the change events whose handler has not been called yet, oldest first
    wStarted,   \* the events whose cycle has started, in the order of the starts
    wFinished,  \* the events whose call of execute() has returned
    wThrown,    \* the value the try block threw, "" for none
    wEscaped    \* the events whose call of execute() ended with an exception

arrayVars == <<aIn, output, changed, pass, aPc, aRun, before, lastEdit, aRet>>
logVars == <<lSource, lOutput, lMatches, li, lPc, lRun, lRet>>
variableVars == <<vSource, vLines, vi, declaredVars, vResult, vPc, vRet>>
blockVars == <<bPass, bSource, bLines, bi, bStack, bResult, bPc, bRet>>
rangeVars == <<rArgs, rText, rValue, rPc>>
transpileVars == <<tSource, tOutput, tPc, tCalls, tRet>>
watchVars == <<wPc, wCycle, wFired, wPending, wStarted, wFinished, wThrown, wEscaped>>
vars == <<arrayVars, logVars, variableVars, blockVars, rangeVars, transpileVars, watchVars>>

\* what a step of one feature leaves alone: the variables of the others
exceptArrays == <<logVars, variableVars, blockVars, rangeVars, transpileVars, watchVars>>
exceptLog == <<arrayVars, variableVars, blockVars, rangeVars, transpileVars, watchVars>>
exceptVariables == <<arrayVars, logVars, blockVars, rangeVars, transpileVars, watchVars>>
exceptBlocks == <<arrayVars, logVars, variableVars, rangeVars, transpileVars, watchVars>>
exceptRange == <<arrayVars, logVars, variableVars, blockVars, transpileVars, watchVars>>
exceptTranspile == <<arrayVars, logVars, variableVars, blockVars, rangeVars, watchVars>>
exceptWatch == <<arrayVars, logVars, variableVars, blockVars, rangeVars, transpileVars>>

----------------------------------------------------------------------------
(* JavaScript string primitives *)

Min(a, b) == IF a < b THEN a ELSE b
Max(a, b) == IF a > b THEN a ELSE b

\* str[i]; "" when i is outside the string (JavaScript gives undefined)
CharAt(s, i) == IF i >= 0 /\ i < Len(s) THEN SubSeq(s, i + 1, i + 1) ELSE ""

\* String.prototype.substring(a, b): both ends clamped, swapped when a > b
Substring(s, a, b) ==
    LET ca == Min(Max(a, 0), Len(s))
        cb == Min(Max(b, 0), Len(s))
    IN  SubSeq(s, Min(ca, cb) + 1, Max(ca, cb))

SubstringFrom(s, a) == Substring(s, a, Len(s))

\* the regular expression class \s, over the characters the model's texts use
IsSpace(c) == c \in {" ", "\t", "\n"}

WordChars ==
    LET w == "abcdefghijklmnopqrstuvwxyzABCDEFGHIJKLMNOPQRSTUVWXYZ0123456789_"
    IN  {SubSeq(w, i, i) : i \in 1..Len(w)}

\* the class [\w$]
IsWordOrDollar(c) == c \in WordChars \/ c = "$"

\* the first offset >= i that holds no whitespace (Len(s) when there is none): \s*
SkipSpaces(s, i) ==
    CHOOSE j \in i..Max(i, Len(s)) :
        /\ (j >= Len(s) \/ ~IsSpace(CharAt(s, j)))
        /\ \A k \in i..(j - 1) : IsSpace(CharAt(s, k))

\* String.prototype.trim
Trim(s) ==
    LET keep == {i \in 0..(Len(s) - 1) : ~IsSpace(CharAt(s, i))}
    IN  IF keep = {} THEN ""
        ELSE LET lo == CHOOSE i \in keep : \A j \in keep : i <= j
                 hi == CHOOSE i \in keep : \A j \in keep : i >= j
             IN  Substring(s, lo, hi + 1)

StartsWith(s, p) == Len(s) >= Len(p) /\ SubSeq(s, 1, Len(p)) = p
EndsWith(s, p) == Len(s) >= Len(p) /\ SubSeq(s, Len(s) - Len(p) + 1, Len(s)) = p

\* String.prototype.includes
Includes(s, p) == \E i \in 0..(Len(s) - Len(p)) : Substring(s, i, i + Len(p)) = p

\* String.prototype.indexOf(p, from): -1 when p does not occur at or after from
IndexOf(s, p, from) ==
    LET hits == {i \in from..(Len(s) - Len(p)) : Substring(s, i, i + Len(p)) = p}
    IN  IF hits = {} THEN -1 ELSE CHOOSE i \in hits : \A j \in hits : i <= j

SetMax(S) == CHOOSE x \in S : \A y \in S : y <= x
SetMin(S) == CHOOSE x \in S : \A y \in S : x <= y

\* A loop over the characters of str: Step(st, str, i) is the loop body at
\* offset i, st the loop's variables; st.done is set by a break (or by the
\* loop test failing) and ends the loop.  The offsets lo..hi-1 are visited
\* upwards, or downwards when ~up.  The range is halved, not walked, so that
\* the evaluation's depth stays logarithmic in the length of the text.
RECURSIVE Loop(_, _, _, _, _, _)
Loop(Step(_, _, _), str, lo, hi, up, st) ==
    IF hi <= lo \/ st.done THEN st
    ELSE IF hi = lo + 1 THEN Step(st, str, lo)
    ELSE LET mid == (lo + hi) \div 2
         IN  IF up
             THEN CHOOSE r \in {Loop(Step, str, mid, hi, up, half) :
                                   half \in {Loop(Step, str, lo, mid, up, st)}} : TRUE
             ELSE CHOOSE r \in {Loop(Step, str, lo, mid, up, half) :
                                   half \in {Loop(Step, str, mid, hi, up, st)}} : TRUE

----------------------------------------------------------------------------
(* src/src/features/arrays.js *)

\* parseArguments: split at the commas outside parentheses, trim each piece,
\* drop a last piece that trims to nothing
parseArgumentsStep(st, content, i) ==
    LET char == CharAt(content, i)
    IN  IF char = "("
        THEN [st EXCEPT !.current = st.current \o char, !.depth = st.depth + 1]
        ELSE IF char = ")"
        THEN [st EXCEPT !.current = st.current \o char, !.depth = st.depth - 1]
        ELSE IF char = "," /\ st.depth = 0
        THEN [st EXCEPT !.args = Append(st.args, Trim(st.current)), !.current = ""]
        ELSE [st EXCEPT !.current = st.current \o char]

parseArguments(content) ==
    LET end == Loop(parseArgumentsStep, content, 0, Len(content), TRUE,
                    [current |-> "", depth |-> 0, args |-> <<>>, done |-> FALSE])
    IN  IF Trim(end.current) # "" THEN Append(end.args, Trim(end.current)) ELSE end.args

\* the lookahead (?=\s*(?:\(|;|,|\]|\)|$|\s)) at offset q
PropertyLookahead(str, q) ==
    LET r == SkipSpaces(str, q)
    IN  \/ r >= Len(str)
        \/ CharAt(str, r) \in {"(", ";", ",", "]", ")"}
        \/ IsSpace(CharAt(str, q))

\* the pattern \.\s*property(?=...) matches at offset p
PropertyPatternAt(str, property, p) ==
    /\ CharAt(str, p) = "."
    /\ LET q == SkipSpaces(str, p + 1)
       IN  /\ Substring(str, q, q + Len(property)) = property
           /\ q + Len(property) <= Len(str)
           /\ PropertyLookahead(str, q + Len(property))

\* every offset at which pattern.exec reports a match
PropertyMatches(str, property) ==
    {p \in 0..(Len(str) - 1) : PropertyPatternAt(str, property, p)}

\* the backward scan from a closing bracket to its opener: the offset found,
\* or the closing bracket's own offset when the text runs out first
ScanBackToOpenerStep(st, str, pos) ==
    IF CharAt(str, pos) = (IF st.closing = "]" THEN "[" ELSE "(")
    THEN IF st.depth - 1 = 0
         THEN [st EXCEPT !.depth = 0, !.done = TRUE,
                         !.exprStart = IF pos > 2 /\ Substring(str, pos - 3, pos) = "[..."
                                       THEN pos - 3
                                       ELSE pos]
         ELSE [st EXCEPT !.depth = st.depth - 1]
    ELSE IF CharAt(str, pos) = st.closing
    THEN [st EXCEPT !.depth = st.depth + 1]
    ELSE st

ScanBackToOpener(str, pos) ==
    Loop(ScanBackToOpenerStep, str, 0, pos, FALSE,
         [closing |-> CharAt(str, pos), depth |-> 1, exprStart |-> pos, done |-> FALSE]).exprStart

\* a backward walk while Test holds of the character: the offset it stops at
WalkBackStep(Test(_), st, str, pos) ==
    IF Test(CharAt(str, pos)) THEN [st EXCEPT !.pos = pos - 1] ELSE [st EXCEPT !.done = TRUE]

WalkBackWordStep(st, str, pos) == WalkBackStep(IsWordOrDollar, st, str, pos)
WalkBackSpaceStep(st, str, pos) == WalkBackStep(IsSpace, st, str, pos)

\* while (pos >= 0 && /[\w$]/.test(str[pos])) pos--
ScanBackIdentifier(str, pos) ==
    Loop(WalkBackWordStep, str, 0, pos + 1, FALSE, [pos |-> pos, done |-> FALSE]).pos + 1

\* while (pos >= 0 && /\s/.test(str[pos])) pos--
SkipSpacesBack(str, pos) ==
    Loop(WalkBackSpaceStep, str, 0, pos + 1, FALSE, [pos |-> pos, done |-> FALSE]).pos

\* while (finalStart > 0 && /\s/.test(str[finalStart - 1])) finalStart--
FinalStart(str, exprStart) == SkipSpacesBack(str, exprStart - 1) + 1

OperatorChars == {"=", "+", "-", "*", "/", "<", ">", "!", "&", "|", "?", ":", ",", ";", "[", "{", "("}

\* the operand recovered for the match whose dot is at dotPos:
\* [index |-> exprStart, arrExpr |-> text]
OperandBefore(str, dotPos) ==
    LET pos == SkipSpacesBack(str, dotPos - 1)
        exprEnd == pos + 1
        exprStart0 ==
            IF pos >= 0 /\ CharAt(str, pos) \in {"]", ")"}
            THEN ScanBackToOpener(str, pos)
            ELSE ScanBackIdentifier(str, pos)
        finalStart0 == FinalStart(str, exprStart0)
        finalStart ==
            IF finalStart0 > 0 /\ CharAt(str, finalStart0 - 1) \in OperatorChars
            THEN exprStart0
            ELSE finalStart0
    IN  [index |-> finalStart, arrExpr |-> Trim(Substring(str, finalStart, exprEnd))]

\* findRightmostProperty: the operand of the last match, <<>> for null
findRightmostProperty(str, property) ==
    LET ms == PropertyMatches(str, property)
    IN  IF ms = {} THEN <<>> ELSE OperandBefore(str, SetMax(ms))

\* the rule table: argCount is the set of accepted argument counts
transformations ==
    << [name |-> "sort",    type |-> "property",   argCount |-> {0}],
       [name |-> "reverse", type |-> "property",   argCount |-> {0}],
       [name |-> "unique",  type |-> "property",   argCount |-> {0}],
       [name |-> "sum",     type |-> "property",   argCount |-> {0}],
       [name |-> "max",     type |-> "property",   argCount |-> {0}],
       [name |-> "min",     type |-> "property",   argCount |-> {0}],
       [name |-> "len",     type |-> "property",   argCount |-> {0}],
       [name |-> "mul",     type |-> "property",   argCount |-> {0}],
       [name |-> "filter!", type |-> "property",   argCount |-> {1}],
       [name |-> "filter",  type |-> "property",   argCount |-> {1}],
       [name |-> "count!",  type |-> "property",   argCount |-> {1}],
       [name |-> "count",   type |-> "property",   argCount |-> {1}],
       [name |-> "range",   type |-> "standalone", argCount |-> {2, 3}] >>

\* the replacement functions of the property rules
propertyReplacement(name, arrExpr, value) ==
    CASE name = "sort"    -> arrExpr \o ".sort((a,b)=>a-b)"
      [] name = "reverse" -> arrExpr \o ".reverse()"
      [] name = "unique"  -> "[...new Set(" \o arrExpr \o ")]"
      [] name = "sum"     -> arrExpr \o ".reduce((a,b) => a + b, 0)"
      [] name = "max"     -> "Math.max(..." \o arrExpr \o ")"
      [] name = "min"     -> "Math.min(..." \o arrExpr \o ")"
      [] name = "len"     -> arrExpr \o ".length"
      [] name = "mul"     -> arrExpr \o ".reduce((a,b) => a * b, 1)"
      [] name = "filter!" -> arrExpr \o ".filter(v => v !== " \o value \o ")"
      [] name = "filter"  -> arrExpr \o ".filter(v => v === " \o value \o ")"
      [] name = "count!"  -> arrExpr \o ".filter(v => v !== " \o value \o ").length"
      [] name = "count"   -> arrExpr \o ".filter(v => v === " \o value \o ").length"

\* the replacement function of range; "" stands for its null
rangeReplacement(args) ==
    IF Len(args) = 3
    THEN LET absIncrement == "Math.abs(" \o args[3] \o ")"
         IN  "((" \o args[1] \o ") < (" \o args[2] \o ") ? Array.from({ length: Math.ceil((((" \o
             args[2] \o ") - (" \o args[1] \o ")) / " \o absIncrement \o ")) }, (_, i) => (+" \o
             args[1] \o ") + i * " \o absIncrement \o ") : Array.from({ length: Math.ceil((((" \o
             args[1] \o ") - (" \o args[2] \o ")) / " \o absIncrement \o ")) }, (_, i) => (+" \o
             args[1] \o ") - i * " \o absIncrement \o "))"
    ELSE IF Len(args) = 2
    THEN "((" \o args[1] \o ") < (" \o args[2] \o ") ? Array.from({ length: (" \o args[2] \o
         ") - (" \o args[1] \o ") }, (_, i) => (+" \o args[1] \o ") + i) : Array.from({ length: (" \o
         args[1] \o ") - (" \o args[2] \o ") }, (_, i) => (+" \o args[1] \o ") - i))"
    ELSE ""

matchesArgCount(actualCount, expectedCount) == actualCount \in expectedCount

areSimpleArgs(args) ==
    /\ Len(args) # 0
    /\ \A i \in 1..Len(args) : ~Includes(args[i], "=>") /\ ~Includes(args[i], "function")

QuoteChars == {"\"", "'"}

\* the forward scan for the parenthesis that closes a call: the depth it ends
\* with and the offset after the closing character.  honourEscape is the
\* backslash test of the scan in the log feature; the scan here has none.
ScanToCloseStep(st, str, pos) ==
    LET char == CharAt(str, pos)
    IN  IF ~st.inString
        THEN IF char \in QuoteChars
             THEN [st EXCEPT !.inString = TRUE, !.stringChar = char]
             ELSE IF char \in {"(", "[", "{"}
             THEN [st EXCEPT !.depth = st.depth + 1]
             ELSE IF char \in {")", "]", "}"}
             THEN IF st.depth - 1 = 0
                  THEN [st EXCEPT !.depth = 0, !.endPos = pos + 1, !.done = TRUE]
                  ELSE [st EXCEPT !.depth = st.depth - 1]
             ELSE st
        ELSE IF char = st.stringChar /\ (~st.honourEscape \/ CharAt(str, pos - 1) # "\\")
             THEN [st EXCEPT !.inString = FALSE]
             ELSE st

ScanToClose(str, pos, honourEscape) ==
    Loop(ScanToCloseStep, str, pos, Len(str), TRUE,
         [depth |-> 1, inString |-> FALSE, stringChar |-> "", endPos |-> pos,
          honourEscape |-> honourEscape, done |-> FALSE])

\* the pattern \bname\s*\( matches at offset p: the length of the match, 0 for none
CallPatternAt(str, name, p) ==
    IF /\ Substring(str, p, p + Len(name)) = name
       /\ (p = 0 \/ CharAt(str, p - 1) \notin WordChars)
       /\ CharAt(str, SkipSpaces(str, p + Len(name))) = "("
    THEN SkipSpaces(str, p + Len(name)) + 1 - p
    ELSE 0

CallMatches(str, name) ==
    {p \in 0..(Len(str) - 1) : CallPatternAt(str, name, p) > 0}

\* the allMatches entries the standalone branch makes of the match at offset p
StandaloneCandidateAt(str, transform, p) ==
    LET open == p + CallPatternAt(str, transform.name, p)
        scan == ScanToClose(str, open, FALSE)
        args == parseArguments(Substring(str, open, scan.endPos - 1))
    IN  IF /\ scan.depth = 0
           /\ matchesArgCount(Len(args), transform.argCount)
           /\ areSimpleArgs(args)
           /\ rangeReplacement(args) # ""
        THEN {[start |-> p, end |-> scan.endPos,
               replacement |-> rangeReplacement(args), rule |-> transform.name]}
        ELSE {}

\* the standalone branch: the matches are tried from the right and the first
\* one that validates is the rule's only entry
standaloneMatch(str, transform) ==
    LET valid == {p \in CallMatches(str, transform.name) :
                     StandaloneCandidateAt(str, transform, p) # {}}
    IN  IF valid = {} THEN {} ELSE StandaloneCandidateAt(str, transform, SetMax(valid))

\* afterProperty.match(/^\s*\(([^)]*)\)/), or with [^)]+ when nonEmpty:
\* <<>> for null, else the match's length and its group
ParenMatch(after, nonEmpty) ==
    LET q == SkipSpaces(after, 0)
        close == IndexOf(after, ")", q + 1)
    IN  IF CharAt(after, q) = "(" /\ close # -1 /\ (~nonEmpty \/ close > q + 1)
        THEN [len |-> close + 1, group |-> Substring(after, q + 1, close)]
        ELSE <<>>

\* afterProperty.match(/^\s*\(\)/): the match's length, 0 for null
EmptyParensLen(after) ==
    LET q == SkipSpaces(after, 0)
    IN  IF Substring(after, q, q + 2) = "()" THEN q + 2 ELSE 0

\* output.substring(index).match(^arrExpr\s*\.\s*name): the match's length, -1 for null
FullMatchLen(rest, arrExpr, name) ==
    IF ~StartsWith(rest, arrExpr) THEN -1
    ELSE LET q == SkipSpaces(rest, Len(arrExpr))
             r == SkipSpaces(rest, q + 1)
         IN  IF CharAt(rest, q) = "." /\ Substring(rest, r, r + Len(name)) = name
                /\ r + Len(name) <= Len(rest)
             THEN r + Len(name)
             ELSE -1

\* the test that sets shouldTransform for a zero-argument rule
shouldTransform(afterProperty) ==
    LET parenMatch == ParenMatch(afterProperty, FALSE)
    IN  IF afterProperty = "" \/ IsSpace(CharAt(afterProperty, 0))
        THEN IF parenMatch # <<>> /\ Trim(parenMatch.group) = ""
             THEN TRUE
             ELSE parenMatch = <<>>
        ELSE LET firstChar == CharAt(afterProperty, 0)
             IN  IF firstChar = "("
                 THEN parenMatch # <<>> /\ Trim(parenMatch.group) = ""
                 ELSE firstChar \in {";", ",", "]", ")"}

\* the allMatches entries the property branch makes of an operand propMatch
propertyCandidate(str, transform, propMatch) ==
    IF StartsWith(Trim(propMatch.arrExpr), "[...") THEN {}
    ELSE LET fullLen == FullMatchLen(SubstringFrom(str, propMatch.index),
                                     propMatch.arrExpr, transform.name)
             afterProperty == SubstringFrom(str, propMatch.index + fullLen)
         IN  IF fullLen = -1 THEN {}
             ELSE IF transform.argCount = {0}
             THEN IF shouldTransform(afterProperty)
                  THEN LET dotPos == IndexOf(str, ".", propMatch.index)
                           endPos == IF dotPos # -1
                                     THEN dotPos + 1 + Len(transform.name)
                                     ELSE propMatch.index + fullLen
                           finalEndPos == endPos + EmptyParensLen(afterProperty)
                       IN  {[start |-> propMatch.index, end |-> finalEndPos,
                             replacement |-> propertyReplacement(transform.name, propMatch.arrExpr, ""),
                             rule |-> transform.name]}
                  ELSE {}
             ELSE LET parenMatch == ParenMatch(afterProperty, TRUE)
                      args == IF parenMatch = <<>> THEN <<>> ELSE parseArguments(parenMatch.group)
                  IN  IF /\ parenMatch # <<>>
                         /\ matchesArgCount(Len(args), transform.argCount)
                         /\ areSimpleArgs(args)
                      THEN {[start |-> propMatch.index,
                             end |-> propMatch.index + fullLen + parenMatch.len,
                             replacement |-> propertyReplacement(transform.name, propMatch.arrExpr, args[1]),
                             rule |-> transform.name]}
                      ELSE {}

\* the property branch: only the operand of the rule's last textual match is tried
propertyMatch(str, transform) ==
    LET propMatch == findRightmostProperty(str, transform.name)
    IN  IF propMatch = <<>> THEN {} ELSE propertyCandidate(str, transform, propMatch)

\* the entries one rule adds to allMatches
ruleMatches(str, transform) ==
    IF transform.type = "standalone"
    THEN standaloneMatch(str, transform)
    ELSE propertyMatch(str, transform)

\* allMatches after the for loop over the rules, in rule order
RECURSIVE allMatchesFrom(_, _)
allMatchesFrom(str, i) ==
    IF i > Len(transformations) THEN <<>>
    ELSE LET here == ruleMatches(str, transformations[i])
         IN  (IF here = {} THEN <<>> ELSE <<CHOOSE m \in here : TRUE>>)
                 \o allMatchesFrom(str, i + 1)

allMatches(str) == allMatchesFrom(str, 1)

\* allMatches[0] after the stable sort by start, descending
rightmostMatch(ms) ==
    LET i == CHOOSE k \in 1..Len(ms) :
                 \A j \in 1..Len(ms) :
                     ms[j].start < ms[k].start \/ (ms[j].start = ms[k].start /\ j >= k)
    IN  ms[i]

\* the edit of the buffer
applyMatch(str, m) ==
    Substring(str, 0, m.start) \o m.replacement \o SubstringFrom(str, m.end)

maxPasses == 100

----------------------------------------------------------------------------
(* Texts *)

\* String.prototype.split('\n')
RECURSIVE SplitFrom(_, _, _)
SplitFrom(s, i, acc) ==
    LET nl == IndexOf(s, "\n", i)
    IN  IF nl = -1 THEN Append(acc, SubstringFrom(s, i))
        ELSE SplitFrom(s, nl + 1, Append(acc, Substring(s, i, nl)))

Split(s) == SplitFrom(s, 0, <<>>)

\* Array.prototype.join(sep)
RECURSIVE Join(_, _)
Join(lines, sep) ==
    IF Len(lines) = 0 THEN ""
    ELSE IF Len(lines) = 1 THEN lines[1]
    ELSE lines[1] \o sep \o Join(Tail(lines), sep)

----------------------------------------------------------------------------
(* src/unnamed/part_003: the log feature *)

\* parseArguments of the log feature: split at the commas outside brackets
\* and quotes
parseArgumentsLogStep(st, argsStr, i) ==
    LET char == CharAt(argsStr, i)
    IN  IF ~st.inString
        THEN IF char \in QuoteChars
             THEN [st EXCEPT !.inString = TRUE, !.stringChar = char,
                             !.current = st.current \o char]
             ELSE IF char \in {"(", "[", "{"}
             THEN [st EXCEPT !.depth = st.depth + 1, !.current = st.current \o char]
             ELSE IF char \in {")", "]", "}"}
             THEN [st EXCEPT !.depth = st.depth - 1, !.current = st.current \o char]
             ELSE IF char = "," /\ st.depth = 0
             THEN [st EXCEPT !.args = Append(st.args, Trim(st.current)), !.current = ""]
             ELSE [st EXCEPT !.current = st.current \o char]
        ELSE [st EXCEPT !.current = st.current \o char,
                        !.inString = ~(char = st.stringChar /\ CharAt(argsStr, i - 1) # "\\")]

parseArgumentsLog(argsStr) ==
    IF Trim(argsStr) = "" THEN <<>>
    ELSE LET end == Loop(parseArgumentsLogStep, argsStr, 0, Len(argsStr), TRUE,
                         [current |-> "", depth |-> 0, inString |-> FALSE,
                          stringChar |-> "", args |-> <<>>, done |-> FALSE])
         IN  IF Trim(end.current) # "" THEN Append(end.args, Trim(end.current)) ELSE end.args

isStringLiteral(str) ==
    \E q \in QuoteChars : StartsWith(Trim(str), q) /\ EndsWith(Trim(str), q)

\* every branch of extractVariableName returns the trimmed expression
extractVariableName(expr) == Trim(expr)

\* parts.join(', ') of the all-variables branch, from argument j on
RECURSIVE labelledParts(_, _)
labelledParts(args, j) ==
    IF j > Len(args) THEN ""
    ELSE (IF j > 1 THEN ", '\\n" ELSE "'") \o extractVariableName(args[j]) \o " =>', "
             \o args[j] \o labelledParts(args, j + 1)

\* logReplacement without the labels: every call becomes a plain console.log
logReplacementPlain(args) == "console.log(" \o Join(args, ", ") \o ")"

\* the text that replaces a log call with these arguments
logReplacement(args) ==
    IF Len(args) = 0 THEN "console.log()"
    ELSE IF Len(args) = 1
    THEN IF isStringLiteral(args[1])
         THEN "console.log(" \o args[1] \o ")"
         ELSE "console.log('" \o extractVariableName(args[1]) \o " =>', " \o args[1] \o ")"
    ELSE IF isStringLiteral(args[1])
            \/ ~(\A k \in 1..Len(args) : ~isStringLiteral(args[k]))
    THEN "console.log(" \o Join(args, ", ") \o ")"
    ELSE "console.log(" \o labelledParts(args, 1) \o ")"

\* the offsets of the matches of /\blog\s*\(/g in source, ascending
RECURSIVE SortedSeq(_)
SortedSeq(S) == IF S = {} THEN <<>> ELSE <<SetMin(S)>> \o SortedSeq(S \ {SetMin(S)})

logMatches(source) == SortedSeq(CallMatches(source, "log"))

\* the body of the for loop for the match at startPos: the scan and the
\* arguments are read from source, the edit is made in out at source's offsets
logStep(source, out, startPos) ==
    LET open == startPos + CallPatternAt(source, "log", startPos)
        scan == ScanToClose(source, open, TRUE)
    IN  IF scan.depth = 0
        THEN Substring(out, 0, startPos)
                 \o logReplacement(parseArgumentsLog(Substring(source, open, scan.endPos - 1)))
                 \o SubstringFrom(out, scan.endPos)
        ELSE out

LogIdle ==
    /\ lSource = "" /\ lOutput = "" /\ lMatches = <<>> /\ li = 0 /\ lPc = "idle"
    /\ lRun = 0 /\ lRet = <<>>

----------------------------------------------------------------------------
(* Input texts *)

\* the texts of at most n lines, each line one of the statements
RECURSIVE LineSeqs(_, _)
LineSeqs(statements, n) ==
    IF n = 0 THEN {<<>>}
    ELSE LET shorter == LineSeqs(statements, n - 1)
         IN  shorter \cup {Append(ls, st) : ls \in shorter, st \in statements}

Texts(statements, n) == {Join(ls, "\n") : ls \in LineSeqs(statements, n) \ {<<>>}}

\* the statements the inputs of transformArrays are made of
ArrayStatements ==
    { "x = a.sum",
      "x = a.max",
      "x = a.reverse",
      "x = a.filter(3)",
      "x = a.filter(3).sum",
      "x = a.filter(v => v > 1)",
      "x = a.max + b.max",
      "x = range(1,2)",
      "x = o.range(1,2)",
      "x = range(1,2" }

MaxArrayLines == 2

ArrayInputs == Texts(ArrayStatements, MaxArrayLines)

----------------------------------------------------------------------------
(* transformArrays as a state machine: one step per pass of the while loop *)

ArraysIdle ==
    /\ aIn = "" /\ output = "" /\ changed = FALSE /\ pass = 0 /\ aPc = "idle"
    /\ aRun = 0 /\ before = "" /\ lastEdit = <<>> /\ aRet = <<>>

ArraysInit ==
    /\ aIn \in ArrayInputs
    /\ output = aIn
    /\ changed = TRUE
    /\ pass = 0
    /\ aPc = "loop"
    /\ aRun = 1
    /\ before = aIn
    /\ lastEdit = <<>>
    /\ aRet = <<>>

\* a pass that sets changed whether or not it found a match
ArraysPassAlwaysChanged ==
    /\ aPc = "loop"
    /\ changed /\ pass < maxPasses
    /\ pass' = pass + 1
    /\ before' = output
    /\ \E ms \in {allMatches(output)} :
           IF Len(ms) > 0 /\ rightmostMatch(ms).replacement # ""
           THEN /\ output' = applyMatch(output, rightmostMatch(ms))
                /\ changed' = TRUE
                /\ lastEdit' = rightmostMatch(ms)
           ELSE /\ output' = output
                /\ changed' = TRUE
                /\ lastEdit' = <<>>
    /\ UNCHANGED <<aIn, aPc, aRun, aRet>>
    /\ UNCHANGED exceptArrays

\* one pass: collect allMatches, apply the one that sorts first
ArraysPass ==
    /\ aPc = "loop"
    /\ changed /\ pass < maxPasses
    /\ pass' = pass + 1
    /\ before' = output
    /\ \E ms \in {allMatches(output)} :
           IF Len(ms) > 0 /\ rightmostMatch(ms).replacement # ""
           THEN /\ output' = applyMatch(output, rightmostMatch(ms))
                /\ changed' = TRUE
                /\ lastEdit' = rightmostMatch(ms)
           ELSE /\ output' = output
                /\ changed' = FALSE
                /\ lastEdit' = <<>>
    /\ UNCHANGED <<aIn, aPc, aRun, aRet>>
    /\ UNCHANGED exceptArrays

\* the while test fails: return output
ArraysReturn ==
    /\ aPc = "loop"
    /\ ~(changed /\ pass < maxPasses)
    /\ aPc' = "done"
    /\ aRet' = [tag |-> "return", value |-> output, error |-> ""]
    /\ UNCHANGED <<aIn, output, changed, pass, aRun, before, lastEdit>>
    /\ UNCHANGED exceptArrays

\* a second call, on the text the first call returned
ArraysAgain ==
    /\ aPc = "done"
    /\ aRun = 1
    /\ aRun' = 2
    /\ aIn' = aRet.value
    /\ output' = aRet.value
    /\ changed' = TRUE
    /\ pass' = 0
    /\ aPc' = "loop"
    /\ before' = aRet.value
    /\ lastEdit' = <<>>
    /\ aRet' = <<>>
    /\ UNCHANGED exceptArrays

ArraysNext == ArraysPass \/ ArraysReturn \/ ArraysAgain

----------------------------------------------------------------------------
(* Occurrences, for the statements about transformArrays *)

\* every occurrence of a rule in str that passes the rule's own validation:
\* the tests of the standalone and property branches, applied to every
\* textual match of the rule's pattern instead of one match per rule
ValidOccurrencesOf(str, transform) ==
    IF transform.type = "standalone"
    THEN UNION {StandaloneCandidateAt(str, transform, p) : p \in CallMatches(str, transform.name)}
    ELSE UNION {propertyCandidate(str, transform, OperandBefore(str, p)) :
                    p \in PropertyMatches(str, transform.name)}

ValidOccurrences(str) ==
    UNION {ValidOccurrencesOf(str, transformations[i]) : i \in 1..Len(transformations)}

\* the textual matches of all the rules' patterns in str, valid or not
SugarCount(str) ==
    LET counts == [i \in 1..Len(transformations) |->
                      IF transformations[i].type = "standalone"
                      THEN Cardinality(CallMatches(str, transformations[i].name))
                      ELSE Cardinality(PropertyMatches(str, transformations[i].name))]
        sum[i \in 0..Len(transformations)] == IF i = 0 THEN 0 ELSE sum[i - 1] + counts[i]
    IN  sum[Len(transformations)]

\* the passes of the current call that edited the buffer
EditingPasses == IF changed THEN pass ELSE Max(pass - 1, 0)

\* a call pattern of name in str whose forward scan runs out of text unbalanced
UnbalancedCall(str, name, honourEscape) ==
    \E p \in CallMatches(str, name) :
        LET open == p + CallPatternAt(str, name, p)
        IN  ScanToClose(str, open, honourEscape).depth > 0

\* the edit the pass applied is a range expansion whose `range(` directly
\* follows a `.` in the buffer the pass started from
MemberRangeEdit ==
    /\ lastEdit' # <<>>
    /\ lastEdit'.rule = "range"
    /\ lastEdit'.start > 0
    /\ CharAt(output, lastEdit'.start - 1) = "."

\* C20: a `range(` that is immediately preceded by a `.` is never taken for
\* an occurrence of the standalone range rule: no pass of transformArrays
\* expands it.
C20_MemberRangeUntouched ==
    [][(aPc = "loop" /\ pass' = pass + 1) => ~MemberRangeEdit]_vars

\* C1: when transformArrays returns, the returned text holds no occurrence of
\* a rule that passes validation; every valid occurrence has been expanded.
C1_NoValidOccurrenceLeft ==
    aPc = "done" => ValidOccurrences(aRet.value) = {}

\* C2: the loop stops after at most D passes, D the nesting depth of the
\* input's sugar operations, and no sugar rule is left in callable position.
\* Read in the claim's favour: only the passes that rewrite are counted, D is
\* bounded by the number of sugar operations the input holds, and a rule is
\* left when a valid occurrence of it is.
C2_StopsWithinDepth ==
    (aRun = 1 /\ aPc = "done") =>
        /\ EditingPasses <= SugarCount(aIn)
        /\ ValidOccurrences(aRet.value) = {}

\* C6: a second call on the first call's output changes nothing, and its
\* first pass finds no occurrence to rewrite.
C6_SecondRunIsNoOp ==
    aRun = 2 =>
        /\ pass >= 1 => (pass = 1 /\ ~changed /\ lastEdit = <<>>)
        /\ aPc = "done" => aRet.value = aIn

\* C7: the occurrence a pass replaces has the largest start offset among all
\* valid occurrences of all rules in the buffer the pass scanned.
C7_RightmostOfAllOccurrences ==
    (pass >= 1 /\ lastEdit # <<>>) =>
        lastEdit.start = SetMax({o.start : o \in ValidOccurrences(before)})

\* C8: in a chain, the operation whose result is the operand is expanded in
\* an earlier pass than the operation applied to it: no pass rewrites a span
\* that starts inside a still unexpanded valid occurrence and runs past its end.
C8_InnerBeforeEnclosing ==
    (pass >= 1 /\ lastEdit # <<>>) =>
        ~\E v \in ValidOccurrences(before) :
            v.start < lastEdit.start /\ lastEdit.start < v.end /\ v.end < lastEdit.end

\* C9: reaching the pass cap with an occurrence still pending ends the call
\* with an ExpansionDivergence diagnostic, not with a normal return (transpile
\* hands on what transformArrays returns or throws).
C9_CapRaisesDivergence ==
    (aPc = "done" /\ pass = maxPasses /\ Len(allMatches(output)) > 0) =>
        (aRet.tag = "throw" /\ aRet.error = "ExpansionDivergence")

\* C10: a range( call whose parentheses do not balance makes transformArrays,
\* and with it transpile, fail with an UnbalancedDelimiter diagnostic instead
\* of returning a text in which the call is left as it was.
C10_UnbalancedRaises ==
    (aPc = "done" /\ UnbalancedCall(aIn, "range", FALSE)) =>
        (aRet.tag = "throw" /\ aRet.error = "UnbalancedDelimiter")

\* the statements for the passes of the loop: a rule whose output matches
\* itself again (reverse), single rules, two rules in one statement
ArrayPassStatements ==
    { "x = a.reverse",
      "x = a.sum",
      "x = a.filter(3).sum",
      "x = a.max + b.max" }

MaxArrayPassLines == 2

ArrayPassInputs == Texts(ArrayPassStatements, MaxArrayPassLines)

\* transformArrays is called on one of these texts
ArrayPassesInit ==
    /\ aIn \in ArrayPassInputs
    /\ output = aIn
    /\ changed = TRUE
    /\ pass = 0
    /\ aPc = "loop"
    /\ aRun = 1
    /\ before = aIn
    /\ lastEdit = <<>>
    /\ aRet = <<>>

\* the candidates a pass collects from str, one per rule at most
Candidates(str) ==
    UNION {ruleMatches(str, transformations[i]) : i \in 1..Len(transformations)}

\* C22: a pass of the loop of transformArrays makes exactly one edit of the
\* buffer, the replacement of one collected candidate's span, when it
\* collected a candidate, and none otherwise; a pass runs only if it is the
\* first or the pass before it made an edit, and fewer than 100 passes have
\* run; the function returns the buffer when that fails.
C22_OneEditPerPass ==
    [][aPc = "loop" =>
          IF pass' = pass + 1
          THEN /\ pass < maxPasses
               /\ pass = 0 \/ lastEdit # <<>>
               /\ \E collected \in {Candidates(output)} :
                      IF collected # {}
                      THEN /\ lastEdit' \in collected
                           /\ output' = Substring(output, 0, lastEdit'.start)
                                            \o lastEdit'.replacement
                                            \o SubstringFrom(output, lastEdit'.end)
                           /\ changed'
                      ELSE /\ output' = output
                           /\ lastEdit' = <<>>
                           /\ ~changed'
          ELSE aPc' = "done" =>
                   /\ pass = maxPasses \/ (pass >= 1 /\ lastEdit = <<>>)
                   /\ aRet'.value = output]_vars

\* a pass has collected two candidates and replaced one of them
C22_Witness ==
    /\ aPc = "loop" /\ pass = 1 /\ lastEdit # <<>>
    /\ Cardinality(Candidates(before)) >= 2
    /\ lastEdit \in Candidates(before)
    /\ Candidates(output) # {}

----------------------------------------------------------------------------
(* transformArrays on calls and receivers: arguments that pass or fail the *)
(* rules' validation, receivers that end in a call or an index             *)

ArrayCallStatements ==
    { "x = a.sort(cmp)",
      "x = a.filter(v => v > 1)",
      "x = a.filter((v) => v > 1)",
      "x = a.filter(3)",
      "x = a.sum()",
      "x = range(5)",
      "x = range(1,2)" }

MaxArrayCallLines == 2

ArrayCallInputs == Texts(ArrayCallStatements, MaxArrayCallLines)

\* transformArrays is called on one of these texts
ArrayCallsInit ==
    /\ aIn \in ArrayCallInputs
    /\ output = aIn
    /\ changed = TRUE
    /\ pass = 0
    /\ aPc = "loop"
    /\ aRun = 1
    /\ before = aIn
    /\ lastEdit = <<>>
    /\ aRet = <<>>

\* the rule of the given name
RuleNamed(name) ==
    transformations[CHOOSE i \in 1..Len(transformations) : transformations[i].name = name]

\* the arguments of the call that starts at the beginning of after, spaces
\* skipped: the text between its parenthesis and the parenthesis that
\* balances it, split at the top-level commas; none when there is no call
CallArguments(after) ==
    LET q == SkipSpaces(after, 0)
        scan == ScanToClose(after, q + 1, FALSE)
    IN  IF CharAt(after, q) = "(" /\ scan.depth = 0
        THEN parseArguments(Substring(after, q + 1, scan.endPos - 1))
        ELSE <<>>

\* the arguments of the occurrence of rule name that starts at offset start of str
OccurrenceArguments(str, name, start) ==
    IF RuleNamed(name).type = "standalone"
    THEN CallArguments(SubstringFrom(str, start + Len(name)))
    ELSE LET propMatch == findRightmostProperty(str, name)
             fullLen == FullMatchLen(SubstringFrom(str, start), propMatch.arrExpr, name)
         IN  CallArguments(SubstringFrom(str, start + fullLen))

\* the arguments pass the two tests of the rule
ValidArguments(name, args) ==
    /\ Len(args) \in RuleNamed(name).argCount
    /\ \A i \in 1..Len(args) : ~Includes(args[i], "=>") /\ ~Includes(args[i], "function")

\* C21: a pass of transformArrays replaces an occurrence only if its argument
\* count is the rule's count, or in its accepted set, and no argument holds
\* a function-literal marker (=> or function); an occurrence that fails
\* either test is not edited.
C21_OnlyValidArgumentsReplaced ==
    [][(aPc = "loop" /\ pass' = pass + 1 /\ lastEdit' # <<>>) =>
          ValidArguments(lastEdit'.rule,
                         OccurrenceArguments(output, lastEdit'.rule, lastEdit'.start))]_vars

\* the statements with receivers that hold a `.`, or end in a call or an index
ArrayReceiverStatements ==
    { "x = a.sum",
      "x = a.len()",
      "x = [1.5,2].sum",
      "x = (a.b).len",
      "x = f(x).max",
      "x = m[i].min",
      "x = a.filter(3).unique" }

MaxArrayReceiverLines == 2

ArrayReceiverInputs == Texts(ArrayReceiverStatements, MaxArrayReceiverLines)

\* transformArrays is called on one of these texts
ArrayReceiversInit ==
    /\ aIn \in ArrayReceiverInputs
    /\ output = aIn
    /\ changed = TRUE
    /\ pass = 0
    /\ aPc = "loop"
    /\ aRun = 1
    /\ before = aIn
    /\ lastEdit = <<>>
    /\ aRet = <<>>

\* the pass has applied a member rule
MemberEdit ==
    /\ aPc = "loop" /\ pass' = pass + 1 /\ lastEdit' # <<>>
    /\ RuleNamed(lastEdit'.rule).type = "property"

\* the offset behind `.name`, and behind the empty `()` when one follows, of
\* the last textual match of rule name in str
ZeroArgSpanEnd(str, name) ==
    LET dot == SetMax(PropertyMatches(str, name))
        nameEnd == SkipSpaces(str, dot + 1) + Len(name)
    IN  nameEnd + EmptyParensLen(SubstringFrom(str, nameEnd))

\* C25: when a zero-argument member rule is applied, the replaced span is the
\* recovered operand followed by `.name` and an optional empty `()`: the
\* text before the operand and the text after the span are unchanged, also
\* when the operand holds a `.` itself.
C25_ZeroArgSpan ==
    [][(MemberEdit /\ RuleNamed(lastEdit'.rule).argCount = {0}) =>
          LET name == lastEdit'.rule
              operand == findRightmostProperty(output, name)
          IN  output' = Substring(output, 0, operand.index)
                            \o lastEdit'.replacement
                            \o SubstringFrom(output, ZeroArgSpanEnd(output, name))]_vars

\* the characters a receiver expression goes on with to the left of a
\* bracket group: a callee or array name, a call, an index, a member access
ReceiverChars == WordChars \cup {"$", ")", "]", "."}

\* C26: when the operand of a member rule ends in a call or an index, the
\* operand handed to the replacement is the whole receiver, with the callee
\* or array name in front of the bracket group: nothing of the receiver is
\* left in front of the replaced span.
C26_WholeReceiver ==
    [][(MemberEdit /\ lastEdit'.start > 0) =>
          LET operand == findRightmostProperty(output, lastEdit'.rule)
              last == CharAt(operand.arrExpr, Len(operand.arrExpr) - 1)
          IN  last \in {")", "]"} => CharAt(output, lastEdit'.start - 1) \notin ReceiverChars]_vars

----------------------------------------------------------------------------
(* transformLog as a state machine: one step per match, from the right *)

LogStatements ==
    { "log()",
      "log(x)",
      "log('hi')",
      "log(x, y)",
      "log('n', x)",
      "log(x, 'n')",
      "log(x, y, z)",
      "log(x",
      "log(log(x))",
      "console.log(x)",
      "y = f(x)" }

MaxLogLines == 2

LogInputs == Texts(LogStatements, MaxLogLines)

LogInit ==
    /\ lSource \in LogInputs
    /\ lOutput = lSource
    /\ lMatches = logMatches(lSource)
    /\ li = Len(lMatches)
    /\ lPc = "loop"
    /\ lRun = 1
    /\ lRet = <<>>

\* one iteration of for (let i = matches.length - 1; i >= 0; i--)
LogIteration ==
    /\ lPc = "loop"
    /\ li >= 1
    /\ lOutput' = logStep(lSource, lOutput, lMatches[li])
    /\ li' = li - 1
    /\ UNCHANGED <<lSource, lMatches, lPc, lRun, lRet>>
    /\ UNCHANGED exceptLog

LogReturn ==
    /\ lPc = "loop"
    /\ li = 0
    /\ lPc' = "done"
    /\ lRet' = [tag |-> "return", value |-> lOutput, error |-> ""]
    /\ UNCHANGED <<lSource, lOutput, lMatches, li, lRun>>
    /\ UNCHANGED exceptLog

\* a second call, on the text the first call returned
LogAgain ==
    /\ lPc = "done"
    /\ lRun = 1
    /\ lRun' = 2
    /\ lSource' = lRet.value
    /\ lOutput' = lRet.value
    /\ lMatches' = logMatches(lRet.value)
    /\ li' = Len(logMatches(lRet.value))
    /\ lPc' = "loop"
    /\ lRet' = <<>>
    /\ UNCHANGED exceptLog

LogNext == LogIteration \/ LogReturn \/ LogAgain

\* C5: a second call of transformLog on the first call's output returns it
\* unchanged; the console.log calls it emitted are not rewritten again.
C5_LogIdempotent ==
    (lRun = 2 /\ lPc = "done") => lRet.value = lSource

\* the argument lists of the balanced calls among LogStatements
LogArgLists ==
    { <<>>, <<"x">>, <<"'hi'">>, <<"x", "y">>, <<"'n'", "x">>, <<"x", "'n'">>,
      <<"x", "y", "z">> }

CallOf(args) == "log(" \o Join(args, ", ") \o ")"

\* a string literal: a text that begins and ends with the same quote character
Quoted(arg) ==
    Len(arg) >= 1 /\ CharAt(arg, 0) \in QuoteChars /\ CharAt(arg, Len(arg) - 1) = CharAt(arg, 0)

\* the label of an argument: its source text and ` =>`, after the first
\* argument with the escape of a line break in front
LabelOf(args, j) == "'" \o (IF j > 1 THEN "\\n" ELSE "") \o args[j] \o " =>'"

\* the replacement the table gives for a call with these arguments
ExpectedLog(args) ==
    IF Len(args) = 0 THEN "console.log()"
    ELSE IF \E j \in 1..Len(args) : Quoted(args[j])
    THEN "console.log(" \o Join(args, ", ") \o ")"
    ELSE "console.log("
             \o Join([k \in 1..(2 * Len(args)) |->
                         IF k % 2 = 1 THEN LabelOf(args, (k + 1) \div 2) ELSE args[k \div 2]], ", ")
             \o ")"

\* what the table makes of a line: a balanced call is replaced, a line
\* without a call is kept
ExpectedLogLine(line) ==
    IF \E args \in LogArgLists : line = CallOf(args)
    THEN ExpectedLog(CHOOSE args \in LogArgLists : line = CallOf(args))
    ELSE line

AtMemberLog ==
    /\ lPc = "loop" /\ li >= 1
    /\ lMatches[li] > 0
    /\ CharAt(lSource, lMatches[li] - 1) = "."

\* C24: transformLog rewrites only calls whose callee is the bare identifier
\* log: the iteration for a member call such as console.log(x) leaves the
\* buffer unchanged.
C24_MemberLogUntouched ==
    [][(AtMemberLog /\ li' = li - 1) => lOutput' = lOutput]_vars

\* C11: every iteration of transformLog replaces the call it processes over
\* exactly the span the call has in the buffer: the text before the call and
\* the text after its closing parenthesis are kept, what stands between them
\* afterwards is one console.log call, the offsets of the calls still to be
\* processed still hold a log call, and an unbalanced call changes nothing.
C11_ExactSpans ==
    [][(lPc = "loop" /\ li >= 1 /\ li' = li - 1) =>
          LET startPos == lMatches[li]
              open == startPos + CallPatternAt(lOutput, "log", startPos)
              scan == ScanToClose(lOutput, open, TRUE)
              tailLen == Len(lOutput) - scan.endPos
              new == Substring(lOutput', startPos, Len(lOutput') - tailLen)
          IN  /\ CallPatternAt(lOutput, "log", startPos) > 0
              /\ IF scan.depth = 0
                 THEN /\ Len(lOutput') >= startPos + tailLen
                      /\ Substring(lOutput', 0, startPos) = Substring(lOutput, 0, startPos)
                      /\ SubstringFrom(lOutput', Len(lOutput') - tailLen)
                             = SubstringFrom(lOutput, scan.endPos)
                      /\ StartsWith(new, "console.log(")
                      /\ ScanToClose(new, 12, TRUE).depth = 0
                      /\ ScanToClose(new, 12, TRUE).endPos = Len(new)
                      /\ \A j \in 1..(li - 1) : CallPatternAt(lOutput', "log", lMatches[j]) > 0
                 ELSE lOutput' = lOutput]_vars

----------------------------------------------------------------------------
(* transformVariables, the variables feature (src/unnamed/part_001) *)

\* the class [a-zA-Z_$]
IsIdentStart(c) ==
    c # "" /\ IsWordOrDollar(c) /\ c \notin {"0", "1", "2", "3", "4", "5", "6", "7", "8", "9"}

\* the first offset >= i that holds no [a-zA-Z0-9_$]
IdentEnd(s, i) ==
    CHOOSE j \in i..Max(i, Len(s)) :
        /\ (j >= Len(s) \/ ~IsWordOrDollar(CharAt(s, j)))
        /\ \A k \in i..(j - 1) : IsWordOrDollar(CharAt(s, k))

\* \b at offset i: exactly one of the characters on its two sides is a \w
WordBoundary(s, i) == (CharAt(s, i - 1) \in WordChars) # (CharAt(s, i) \in WordChars)

\* source.replace(/\bconst\b/g, 'let'), from offset `from` on
RECURSIVE replaceConstFrom(_, _)
replaceConstFrom(s, from) ==
    LET hits == {i \in from..(Len(s) - 5) :
                    /\ Substring(s, i, i + 5) = "const"
                    /\ WordBoundary(s, i) /\ WordBoundary(s, i + 5)}
    IN  IF hits = {} THEN SubstringFrom(s, from)
        ELSE Substring(s, from, SetMin(hits)) \o "let" \o replaceConstFrom(s, SetMin(hits) + 5)

replaceConst(s) == replaceConstFrom(s, 0)

\* line.match(/^(\s*)/)[1]
leadingSpace(line) == Substring(line, 0, SkipSpaces(line, 0))

\* the identifier of /^ident\s*=/ matched at offset a of str, "" when it does not match
identBeforeEquals(str, a) ==
    IF IsIdentStart(CharAt(str, a)) /\ CharAt(str, SkipSpaces(str, IdentEnd(str, a))) = "="
    THEN Substring(str, a, IdentEnd(str, a))
    ELSE ""

\* trimmed.match(/^(let|const|var)\s+([a-zA-Z_$][a-zA-Z0-9_$]*)\s*=/): group 2, "" for null
declarationMatch(trimmed) ==
    LET k == IF StartsWith(trimmed, "let") THEN 3
             ELSE IF StartsWith(trimmed, "const") THEN 5
             ELSE IF StartsWith(trimmed, "var") THEN 3
             ELSE 0
    IN  IF k > 0 /\ SkipSpaces(trimmed, k) > k
        THEN identBeforeEquals(trimmed, SkipSpaces(trimmed, k))
        ELSE ""

\* trimmed.match(/^([a-zA-Z_$][a-zA-Z0-9_$]*)\s*=/): group 1, "" for null
assignmentMatch(trimmed) == identBeforeEquals(trimmed, 0)

\* /[\.\[\]$]/.test(beforeVar)
isPropertyAccess(beforeVar) ==
    \E i \in 0..(Len(beforeVar) - 1) : CharAt(beforeVar, i) \in {".", "[", "]", "$"}

\* the line with the keyword of an explicit declaration removed
stripKeyword(line) ==
    LET trimmed == Trim(line)
        varName == declarationMatch(trimmed)
    IN  IF varName # ""
        THEN leadingSpace(line) \o SubstringFrom(trimmed, IndexOf(trimmed, varName, 0))
        ELSE line

\* the body of the for loop for one line: [line, declared]
variablesLine(rawLine, declared) ==
    IF Trim(rawLine) = "" THEN [line |-> rawLine, declared |-> declared]
    ELSE LET line == stripKeyword(rawLine)
             trimmed == Trim(line)
             varName == assignmentMatch(trimmed)
             beforeVar == Substring(trimmed, 0, IndexOf(trimmed, varName, 0))
         IN  IF varName # "" /\ ~isPropertyAccess(beforeVar) /\ varName \notin declared
             THEN [line |-> leadingSpace(line) \o "let "
                                \o SubstringFrom(trimmed, IndexOf(trimmed, varName, 0)),
                   declared |-> declared \cup {varName}]
             ELSE [line |-> line, declared |-> declared]

----------------------------------------------------------------------------
(* transformVariables as a state machine: one step per line *)

VariableStatements ==
    { "x = 1",
      "  x = 2",
      "let x = 1",
      "const x = 1",
      "let x",
      "var x",
      "x.y = 1",
      "let t = 1",
      "t = 2",
      "" }

MaxVariableLines == 3

VariableInputs == Texts(VariableStatements, MaxVariableLines)

VariablesIdle ==
    /\ vSource = "" /\ vLines = <<>> /\ vi = 0 /\ declaredVars = {} /\ vResult = <<>>
    /\ vPc = "idle" /\ vRet = <<>>

VariablesInit ==
    /\ vSource \in VariableInputs
    /\ vLines = Split(replaceConst(vSource))
    /\ vi = 0
    /\ declaredVars = {}
    /\ vResult = <<>>
    /\ vPc = "loop"
    /\ vRet = <<>>

\* one iteration of for (let i = 0; i < lines.length; i++)
VariablesLine ==
    /\ vPc = "loop"
    /\ vi < Len(vLines)
    /\ \E r \in {variablesLine(vLines[vi + 1], declaredVars)} :
           /\ vResult' = Append(vResult, r.line)
           /\ declaredVars' = r.declared
    /\ vi' = vi + 1
    /\ UNCHANGED <<vSource, vLines, vPc, vRet>>
    /\ UNCHANGED exceptVariables

VariablesReturn ==
    /\ vPc = "loop"
    /\ vi >= Len(vLines)
    /\ vPc' = "done"
    /\ vRet' = [tag |-> "return", value |-> Join(vResult, "\n"), error |-> ""]
    /\ UNCHANGED <<vSource, vLines, vi, declaredVars, vResult>>
    /\ UNCHANGED exceptVariables

VariablesNext == VariablesLine \/ VariablesReturn

\* the identifier a line introduces with a declaration keyword, "" when none
IntroducedBy(line) ==
    LET trimmed == Trim(line)
        k == IF StartsWith(trimmed, "let") \/ StartsWith(trimmed, "var") THEN 3
             ELSE IF StartsWith(trimmed, "const") THEN 5
             ELSE 0
        a == SkipSpaces(trimmed, k)
    IN  IF k > 0 /\ a > k /\ IsIdentStart(CharAt(trimmed, a))
        THEN Substring(trimmed, a, IdentEnd(trimmed, a))
        ELSE ""

\* C4: in the text transformVariables returns, no identifier is introduced by
\* a declaration keyword on two lines.
C4_DeclaredAtMostOnce ==
    vPc = "done" =>
        LET out == Split(vRet.value)
        IN  \A i, j \in 1..Len(out) :
                (i # j /\ IntroducedBy(out[i]) # "") => IntroducedBy(out[i]) # IntroducedBy(out[j])

\* the identifier a line assigns to: that of `identifier =`, or that of an
\* explicit declaration with an initializer, `keyword identifier =`
AssignedIn(line) ==
    IF assignmentMatch(Trim(line)) # "" THEN assignmentMatch(Trim(line))
    ELSE declarationMatch(Trim(line))

\* C12: in the text transformVariables returns, a line whose trimmed content
\* begins `identifier =` has `let` prepended when no earlier line of the file
\* assigns to that identifier, and is emitted as it was when one does.
C12_LetIffFirstAssignment ==
    vPc = "done" =>
        \A i \in 1..Len(vLines) :
            LET name == assignmentMatch(Trim(vLines[i]))
            IN  name # "" =>
                    vResult[i] = IF \E j \in 1..(i - 1) : AssignedIn(vLines[j]) = name
                                 THEN vLines[i]
                                 ELSE leadingSpace(vLines[i]) \o "let " \o Trim(vLines[i])

----------------------------------------------------------------------------
(* src/src/features/functions.js and src/src/features/codeblocks.js *)

\* ' '.repeat(n)
RECURSIVE Repeat(_, _)
Repeat(c, n) == IF n <= 0 THEN "" ELSE c \o Repeat(c, n - 1)

\* line.match(/^(\s*)/)[1].length
indentOf(line) == Len(leadingSpace(line))

\* trimmed.match(/^([a-zA-Z_$][a-zA-Z0-9_$]*)\s*\(([^)]*)\)\s*:\s*$/):
\* [name, params], <<>> for null
functionMatch(trimmed) ==
    IF ~IsIdentStart(CharAt(trimmed, 0)) THEN <<>>
    ELSE LET nameEnd == IdentEnd(trimmed, 0)
             open == SkipSpaces(trimmed, nameEnd)
             close == IndexOf(trimmed, ")", open + 1)
             colon == SkipSpaces(trimmed, close + 1)
         IN  IF /\ CharAt(trimmed, open) = "("
                /\ close >= 0
                /\ CharAt(trimmed, colon) = ":"
                /\ SkipSpaces(trimmed, colon + 1) >= Len(trimmed)
             THEN [name |-> Substring(trimmed, 0, nameEnd),
                   params |-> Substring(trimmed, open + 1, close)]
             ELSE <<>>

isFunctionDefinition(trimmed) == functionMatch(trimmed) # <<>>

\* `${indent}function ${functionName}(${params}) {`
functionHeader(line) ==
    LET m == functionMatch(Trim(line))
    IN  leadingSpace(line) \o "function " \o m.name \o "(" \o Trim(m.params) \o ") {"

\* closeExited without its loop: no level is closed before a line
closeExitedNothing(stack, currentIndent) == [stack |-> stack, closes |-> <<>>]

\* closeExited with the loop test `indent > currentIndent`: a level is closed
\* only by a line that is shallower than its header
RECURSIVE closeExitedStrict(_, _)
closeExitedStrict(stack, currentIndent) ==
    IF Len(stack) > 0 /\ stack[Len(stack)].indent > currentIndent
    THEN LET rest == closeExitedStrict(SubSeq(stack, 1, Len(stack) - 1), currentIndent)
         IN  [stack |-> rest.stack,
              closes |-> <<Repeat(" ", stack[Len(stack)].indent) \o "}">> \o rest.closes]
    ELSE [stack |-> stack, closes |-> <<>>]

\* the while loop that closes the levels a line at currentIndent has left:
\* [stack, closes], closes the lines pushed on result
RECURSIVE closeExited(_, _)
closeExited(stack, currentIndent) ==
    IF Len(stack) > 0 /\ stack[Len(stack)].indent >= currentIndent
    THEN LET rest == closeExited(SubSeq(stack, 1, Len(stack) - 1), currentIndent)
         IN  [stack |-> rest.stack,
              closes |-> <<Repeat(" ", stack[Len(stack)].indent) \o "}">> \o rest.closes]
    ELSE [stack |-> stack, closes |-> <<>>]

\* closeRemaining with the loop test `length > 1`: the outermost block is
\* left open
RECURSIVE closeRemainingButOutermost(_)
closeRemainingButOutermost(stack) ==
    IF Len(stack) > 1
    THEN LET rest == closeRemainingButOutermost(SubSeq(stack, 1, Len(stack) - 1))
         IN  [stack |-> rest.stack,
              closes |-> <<Repeat(" ", stack[Len(stack)].indent) \o "}">> \o rest.closes]
    ELSE [stack |-> stack, closes |-> <<>>]

\* the while loop after the for loop, which closes what is still open:
\* [stack, closes]
RECURSIVE closeRemaining(_)
closeRemaining(stack) ==
    IF Len(stack) > 0
    THEN LET rest == closeRemaining(SubSeq(stack, 1, Len(stack) - 1))
         IN  [stack |-> rest.stack,
              closes |-> <<Repeat(" ", stack[Len(stack)].indent) \o "}">> \o rest.closes]
    ELSE [stack |-> stack, closes |-> <<>>]

\* lines[i + 1] exists, is not blank and is indented deeper than currentIndent
nextLineDeeper(lines, i, currentIndent) ==
    /\ i + 1 < Len(lines)
    /\ Trim(lines[i + 2]) # ""
    /\ indentOf(lines[i + 2]) > currentIndent

\* trimmed.match(/^\s*(for|while|if|else\s+if)\s*\(/) !== null
controlMatch(trimmed) ==
    LET start == SkipSpaces(trimmed, 0)
        from == SubstringFrom(trimmed, start)
        elseIf == SkipSpaces(from, 4)
        keywordEnds ==
            {Len(k) : k \in {k \in {"for", "while", "if"} : StartsWith(from, k)}}
            \cup (IF StartsWith(from, "else") /\ elseIf > 4
                      /\ Substring(from, elseIf, elseIf + 2) = "if"
                  THEN {elseIf + 2} ELSE {})
    IN  \E e \in keywordEnds : CharAt(from, SkipSpaces(from, e)) = "("

\* the body of the loop that looks for the parenthesis closing the first one
closingParenStep(st, trimmed, i) ==
    IF CharAt(trimmed, i) = "("
    THEN [st EXCEPT !.depth = st.depth + 1, !.foundOpen = TRUE]
    ELSE IF CharAt(trimmed, i) = ")"
    THEN IF st.foundOpen /\ st.depth - 1 = 0
         THEN [st EXCEPT !.depth = st.depth - 1, !.done = TRUE,
                         !.returned = Trim(SubstringFrom(trimmed, i + 1)) \in {"", "{", "}"}]
         ELSE [st EXCEPT !.depth = st.depth - 1]
    ELSE st

\* trimmed.match(/^\s*if\s+(.+)$/): group 1, "" for null
ifMatch(trimmed) ==
    LET start == SkipSpaces(trimmed, 0)
        cond == SkipSpaces(trimmed, start + 2)
    IN  IF Substring(trimmed, start, start + 2) = "if" /\ cond > start + 2 /\ cond < Len(trimmed)
        THEN SubstringFrom(trimmed, cond)
        ELSE ""

isControlStructure(trimmed) ==
    IF Trim(trimmed) = "else" THEN TRUE
    ELSE LET scan == IF controlMatch(trimmed)
                     THEN Loop(closingParenStep, trimmed, 0, Len(trimmed), TRUE,
                               [depth |-> 0, foundOpen |-> FALSE, done |-> FALSE,
                                returned |-> FALSE])
                     ELSE [depth |-> 0, foundOpen |-> FALSE, done |-> FALSE, returned |-> FALSE]
             condition == Trim(ifMatch(trimmed))
         IN  IF scan.done THEN scan.returned
             ELSE /\ ifMatch(trimmed) # ""
                  /\ ~Includes(trimmed, "(")
                  /\ ~EndsWith(condition, ";")
                  /\ ~EndsWith(condition, "{")
                  /\ ~EndsWith(condition, "}")

\* needsBrace of transformCodeBlocks
needsBrace(trimmed) ==
    isControlStructure(trimmed) /\ ~EndsWith(trimmed, "{") /\ ~EndsWith(trimmed, "}")

\* the body of transformFunctions' for loop for lines[i]: [stack, pushed],
\* pushed the lines it pushes on result
functionsLine(lines, i, stack) ==
    LET line == lines[i + 1]
        currentIndent == indentOf(line)
        closed == closeExited(stack, currentIndent)
    IN  IF isFunctionDefinition(Trim(line))
        THEN IF nextLineDeeper(lines, i, currentIndent)
             THEN [stack |-> Append(closed.stack, [indent |-> currentIndent]),
                   pushed |-> closed.closes \o <<functionHeader(line)>>]
             ELSE [stack |-> closed.stack,
                   pushed |-> closed.closes
                                  \o <<functionHeader(line), Repeat(" ", currentIndent) \o "}">>]
        ELSE [stack |-> closed.stack, pushed |-> closed.closes \o <<line>>]

\* codeBlocksLine with a blank-line case that does not push the line
codeBlocksLineDroppingBlank(lines, i, stack) ==
    LET line == lines[i + 1]
        currentIndent == indentOf(line)
        closed == closeExited(stack, currentIndent)
    IN  IF Trim(line) = ""
        THEN [stack |-> stack, pushed |-> <<>>]
        ELSE IF needsBrace(Trim(line)) /\ nextLineDeeper(lines, i, currentIndent)
        THEN [stack |-> Append(closed.stack, [indent |-> currentIndent]),
              pushed |-> closed.closes \o <<line \o " {">>]
        ELSE [stack |-> closed.stack, pushed |-> closed.closes \o <<line>>]

\* the body of transformCodeBlocks' for loop for lines[i]
codeBlocksLine(lines, i, stack) ==
    LET line == lines[i + 1]
        currentIndent == indentOf(line)
        closed == closeExited(stack, currentIndent)
    IN  IF Trim(line) = ""
        THEN [stack |-> stack, pushed |-> <<line>>]
        ELSE IF needsBrace(Trim(line)) /\ nextLineDeeper(lines, i, currentIndent)
        THEN [stack |-> Append(closed.stack, [indent |-> currentIndent]),
              pushed |-> closed.closes \o <<line \o " {">>]
        ELSE [stack |-> closed.stack, pushed |-> closed.closes \o <<line>>]

----------------------------------------------------------------------------
(* transformFunctions and transformCodeBlocks as state machines: one step per line *)

BlockStatements ==
    { "f():",
      "  g(a):",
      "if (x)",
      "  if (x)",
      "else",
      "y = 1",
      "  y = 1",
      "    y = 1",
      "" }

MaxBlockLines == 4

BlockInputs == Texts(BlockStatements, MaxBlockLines)

BlocksIdle ==
    /\ bPass = "" /\ bSource = "" /\ bLines = <<>> /\ bi = 0 /\ bStack = <<>>
    /\ bResult = <<>> /\ bPc = "idle" /\ bRet = <<>>

BlocksInit ==
    /\ bPass \in {"functions", "codeblocks"}
    /\ bSource \in BlockInputs
    /\ bLines = Split(bSource)
    /\ bi = 0
    /\ bStack = <<>>
    /\ bResult = <<>>
    /\ bPc = "loop"
    /\ bRet = <<>>

\* one iteration of transformFunctions' for loop
FunctionsLine ==
    /\ bPass = "functions" /\ bPc = "loop"
    /\ bi < Len(bLines)
    /\ \E r \in {functionsLine(bLines, bi, bStack)} :
           /\ bStack' = r.stack
           /\ bResult' = bResult \o r.pushed
    /\ bi' = bi + 1
    /\ UNCHANGED <<bPass, bSource, bLines, bPc, bRet>>
    /\ UNCHANGED exceptBlocks

\* the end of transformFunctions: close the remaining functions, return
FunctionsReturn ==
    /\ bPass = "functions" /\ bPc = "loop"
    /\ bi >= Len(bLines)
    /\ \E r \in {closeRemaining(bStack)} :
           /\ bStack' = r.stack
           /\ bResult' = bResult \o r.closes
           /\ bRet' = [tag |-> "return", value |-> Join(bResult \o r.closes, "\n"),
                       error |-> ""]
    /\ bPc' = "done"
    /\ UNCHANGED <<bPass, bSource, bLines, bi>>
    /\ UNCHANGED exceptBlocks

\* one iteration of transformCodeBlocks' for loop
CodeBlocksLine ==
    /\ bPass = "codeblocks" /\ bPc = "loop"
    /\ bi < Len(bLines)
    /\ \E r \in {codeBlocksLine(bLines, bi, bStack)} :
           /\ bStack' = r.stack
           /\ bResult' = bResult \o r.pushed
    /\ bi' = bi + 1
    /\ UNCHANGED <<bPass, bSource, bLines, bPc, bRet>>
    /\ UNCHANGED exceptBlocks

\* the end of transformCodeBlocks: close the remaining blocks, return
CodeBlocksReturn ==
    /\ bPass = "codeblocks" /\ bPc = "loop"
    /\ bi >= Len(bLines)
    /\ \E r \in {closeRemaining(bStack)} :
           /\ bStack' = r.stack
           /\ bResult' = bResult \o r.closes
           /\ bRet' = [tag |-> "return", value |-> Join(bResult \o r.closes, "\n"),
                       error |-> ""]
    /\ bPc' = "done"
    /\ UNCHANGED <<bPass, bSource, bLines, bi>>
    /\ UNCHANGED exceptBlocks

BlocksNext == FunctionsLine \/ FunctionsReturn \/ CodeBlocksLine \/ CodeBlocksReturn

\* how many times the character c occurs in str
CountChar(str, c) == Cardinality({i \in 0..(Len(str) - 1) : CharAt(str, i) = c})

\* the delimiters c the pass added to its input
Emitted(c) == CountChar(bRet.value, c) - CountChar(bSource, c)

\* C3: when transformFunctions or transformCodeBlocks returns, it has emitted
\* as many opening delimiters as closing ones, and its stack is empty.
C3_BlockBalance ==
    bPc = "done" => (Emitted("{") = Emitted("}") /\ bStack = <<>>)

\* a pass has returned after opening, and closing, two blocks
C3_Witness ==
    bPc = "done" /\ Emitted("{") >= 2 /\ Emitted("}") >= 2

\* the line is a header of the pass that runs: a function definition for
\* transformFunctions, a control structure without a brace for transformCodeBlocks
MatchedHeader(which, line) ==
    IF which = "functions" THEN isFunctionDefinition(Trim(line)) ELSE needsBrace(Trim(line))

\* the first non-blank line after lines[i] exists and is indented deeper
NextNonBlankDeeper(lines, i) ==
    LET later == {k \in (i + 2)..Len(lines) : Trim(lines[k]) # ""}
    IN  later # {} /\ indentOf(lines[SetMin(later)]) > indentOf(lines[i + 1])

\* the iteration about to run is the one for a matched header
AtHeader == bPc = "loop" /\ bi < Len(bLines) /\ MatchedHeader(bPass, bLines[bi + 1])

\* C16: a matched header is pushed on the stack if and only if the next
\* non-blank line after it, blank lines in between skipped, is indented
\* strictly deeper than the header.
C16_OpenerIffNextNonBlankDeeper ==
    [][(AtHeader /\ bi' = bi + 1) =>
          ((bStack' # <<>> /\ bStack'[Len(bStack')].indent = indentOf(bLines[bi + 1]))
              <=> NextNonBlankDeeper(bLines, bi))]_vars

\* the iteration about to run is the one for a non-blank line
AtNonBlankLine == bPc = "loop" /\ bi < Len(bLines) /\ Trim(bLines[bi + 1]) # ""

\* the stack positions whose recorded width is at least w
AtLeast(stack, w) == {j \in 1..Len(stack) : stack[j].indent >= w}

\* C18: in both passes, before a non-blank line is appended, exactly the
\* stack entries whose recorded width is greater than or equal to the line's
\* width are popped, top of stack first, and one closing delimiter is
\* appended per pop at the popped entry's width; the line follows them.
C18_PopRule ==
    [][(AtNonBlankLine /\ bi' = bi + 1) =>
          LET line == bLines[bi + 1]
              w == indentOf(line)
              n == Cardinality(AtLeast(bStack, w))
              new == SubSeq(bResult', Len(bResult) + 1, Len(bResult'))
          IN  /\ AtLeast(bStack, w) = (Len(bStack) - n + 1)..Len(bStack)
              /\ Len(bStack') >= Len(bStack) - n
              /\ SubSeq(bStack', 1, Len(bStack) - n) = SubSeq(bStack, 1, Len(bStack) - n)
              /\ \A j \in (Len(bStack) - n + 1)..Len(bStack') : bStack'[j].indent = w
              /\ Len(new) > n
              /\ \A k \in 1..n :
                     new[k] = Repeat(" ", bStack[Len(bStack) + 1 - k].indent) \o "}"
              /\ new[n + 1] = (IF bPass = "functions"
                                THEN IF isFunctionDefinition(Trim(line))
                                     THEN functionHeader(line) ELSE line
                                ELSE IF bStack' # <<>> /\ Len(bStack') > Len(bStack) - n
                                     THEN line \o " {" ELSE line)
              /\ (\E j \in 1..Len(bStack) : bStack[j].indent = w) => n >= 1
              /\ \A j \in 1..Len(bStack) : bStack[j].indent < w => j <= Len(bStack) - n]_vars

\* transformCodeBlocks has closed two nested headers, the inner one first, in
\* front of a line at the outer header's indentation
C18_Witness ==
    /\ bPass = "codeblocks" /\ bPc = "loop" /\ bi = 4
    /\ bSource = "if (x)\n  if (x)\n    y = 1\ny = 1"
    /\ bResult = <<"if (x) {", "  if (x) {", "    y = 1", "  }", "}", "y = 1">>
    /\ bStack = <<>>

\* the iteration about to run is the one for a matched header that the pass
\* does not take for an opener
AtNonOpener ==
    AtHeader /\ ~nextLineDeeper(bLines, bi, indentOf(bLines[bi + 1]))

\* C19: a matched header that is not an opener, a function header or a
\* control header, is appended with an opening delimiter, immediately
\* followed by a closing delimiter at its width, and nothing is pushed on
\* the stack.
C19_NonOpenerClosedAtOnce ==
    [][(AtNonOpener /\ bi' = bi + 1) =>
          LET line == bLines[bi + 1]
              n == Len(bResult')
          IN  /\ n >= Len(bResult) + 2
              /\ EndsWith(bResult'[n - 1], "{")
              /\ bResult'[n] = Repeat(" ", indentOf(line)) \o "}"
              /\ Len(bStack') <= Len(bStack)
              /\ bStack' = SubSeq(bStack, 1, Len(bStack'))]_vars

\* lines[k] is a non-blank line of the body of the function header lines[i]:
\* the header opened a body, and every non-blank line after it up to
\* lines[k] is indented deeper than the header
InBodyOf(lines, i, k) ==
    /\ i < k
    /\ isFunctionDefinition(Trim(lines[i]))
    /\ nextLineDeeper(lines, i - 1, indentOf(lines[i]))
    /\ Trim(lines[k]) # ""
    /\ \A j \in (i + 1)..k : Trim(lines[j]) = "" \/ indentOf(lines[j]) > indentOf(lines[i])

\* C23: a blank line inside the body of a function does not close the
\* function: when transformFunctions has appended a body line, blank lines
\* before it or not, the function is still open, so the line lies between the
\* function's opening delimiter and its closing one.
C23_BlankLineKeepsFunctionOpen ==
    (bPass = "functions" /\ bPc = "loop" /\ bi >= 1) =>
        \A i \in 1..(bi - 1) :
            InBodyOf(bLines, i, bi) =>
                \E e \in 1..Len(bStack) : bStack[e].indent = indentOf(bLines[i])

\* C27: in every state of transformFunctions and transformCodeBlocks the
\* widths recorded on the stack increase strictly from bottom to top: no two
\* open blocks have the same width.
C27_StackStrictlyIncreasing ==
    \A j \in 1..(Len(bStack) - 1) : bStack[j].indent < bStack[j + 1].indent

\* two nested functions are open, the inner one pushed on top of the outer
C27_Witness ==
    /\ bPass = "functions" /\ bPc = "loop" /\ bi = 3
    /\ bLines = <<"f():", "  g(a):", "    y = 1">>
    /\ bStack = <<[indent |-> 0], [indent |-> 2]>>

\* the line is one the pass did not write: neither a closing-delimiter line,
\* nor a line that ends with an opening delimiter, nor a matched header
NotWritten(which, line) ==
    Trim(line) # "}" /\ ~EndsWith(line, "{") /\ ~MatchedHeader(which, line)

\* the lines of the sequence that are no matched headers of the pass
OtherLines(which, lines) == SelectSeq(lines, LAMBDA l : ~MatchedHeader(which, l))

\* C28: transformFunctions and transformCodeBlocks only rewrite matched
\* headers and insert closing-delimiter lines: the returned text is made of
\* the result lines, and the result lines that are neither are the input's
\* lines that are no matched headers, each once, unchanged and in the
\* input's order.
C28_OtherLinesKept ==
    [](bPc = "done" =>
        /\ bRet.value = Join(bResult, "\n")
        /\ SelectSeq(bResult, LAMBDA l : NotWritten(bPass, l)) = OtherLines(bPass, bLines))

\* transformCodeBlocks has returned a text with a rewritten header, a closing
\* line and the three other lines of its input, one of them blank
C28_Witness ==
    /\ bPc = "done" /\ bPass = "codeblocks"
    /\ bSource = "if (x)\n  y = 1\n\ny = 1"
    /\ bRet.value = "if (x) {\n  y = 1\n\n}\ny = 1"

----------------------------------------------------------------------------
(* The value of the text the range rule generates (src/src/features/arrays.js) *)

Abs(n) == IF n < 0 THEN -n ELSE n

\* the decimal literal of an integer
RECURSIVE Literal(_)
Literal(n) ==
    IF n < 0 THEN "-" \o Literal(-n)
    ELSE IF n < 10 THEN SubSeq("0123456789", n + 1, n + 1)
    ELSE Literal(n \div 10) \o Literal(n % 10)

\* Math.floor(x / y): the quotient rounded down instead of up
MathFloorDiv(x, y) ==
    IF y = 0 THEN [kind |-> IF x = 0 THEN "NaN" ELSE "Infinity", n |-> 0]
    ELSE [kind |-> "number", n |-> x \div y]

\* Math.ceil(x / y) for integers x and y >= 0: a number, NaN (0 / 0), or an infinity
MathCeilDiv(x, y) ==
    IF y = 0 THEN [kind |-> IF x = 0 THEN "NaN" ELSE "Infinity", n |-> 0]
    ELSE [kind |-> "number", n |-> -((-x) \div y)]

\* the generated text for two arguments, evaluated:
\* ((a) < (b) ? Array.from({ length: (b) - (a) }, (_, i) => (+a) + i)
\*            : Array.from({ length: (a) - (b) }, (_, i) => (+a) - i))
rangeValue2(a, b) ==
    [tag |-> "return",
     value |-> IF a < b THEN [i \in 1..(b - a) |-> a + (i - 1)]
               ELSE [i \in 1..(a - b) |-> a - (i - 1)]]

\* the generated text for three arguments, evaluated: the length is
\* Math.ceil(((b) - (a)) / Math.abs(s)), the terms (+a) + i * Math.abs(s), or
\* the same downwards; Array.from takes a NaN length as 0 and throws a
\* RangeError for an infinite one
rangeValue3(a, b, s) ==
    LET absIncrement == Abs(s)
        length == IF a < b THEN MathCeilDiv(b - a, absIncrement)
                  ELSE MathCeilDiv(a - b, absIncrement)
    IN  IF length.kind = "Infinity" THEN [tag |-> "throw", error |-> "RangeError"]
        ELSE IF length.kind = "NaN" THEN [tag |-> "return", value |-> <<>>]
        ELSE [tag |-> "return",
              value |-> IF a < b THEN [i \in 1..length.n |-> a + (i - 1) * absIncrement]
                        ELSE [i \in 1..length.n |-> a - (i - 1) * absIncrement]]

MaxRangeValue == 5

RangeValues == (-MaxRangeValue)..MaxRangeValue

RangeIdle == rArgs = <<>> /\ rText = "" /\ rValue = <<>> /\ rPc = "idle"

RangeInit ==
    /\ rArgs \in {<<a, b>> : a, b \in RangeValues}
                  \cup {<<a, b, s>> : a, b, s \in RangeValues}
    /\ rText = ""
    /\ rValue = <<>>
    /\ rPc = "call"

\* the range rule generates the text for the call
RangeExpand ==
    /\ rPc = "call"
    /\ rText' = rangeReplacement([i \in 1..Len(rArgs) |-> Literal(rArgs[i])])
    /\ rPc' = "expanded"
    /\ UNCHANGED <<rArgs, rValue>>
    /\ UNCHANGED exceptRange

\* the generated text is evaluated
RangeEvaluate ==
    /\ rPc = "expanded"
    /\ rValue' = IF Len(rArgs) = 3 THEN rangeValue3(rArgs[1], rArgs[2], rArgs[3])
                 ELSE rangeValue2(rArgs[1], rArgs[2])
    /\ rPc' = "done"
    /\ UNCHANGED <<rArgs, rText>>
    /\ UNCHANGED exceptRange

RangeNext == RangeExpand \/ RangeEvaluate

\* seq is the half-open sequence from a toward b in steps of m: it starts at
\* a, moves by m toward b, holds no term at or beyond b, and stops only when
\* the next term would be at or beyond b; it is empty when a = b
HalfOpen(seq, a, b, m) ==
    LET step == IF a < b THEN m ELSE -m
    IN  /\ a = b => seq = <<>>
        /\ a # b => (Len(seq) >= 1 /\ seq[1] = a)
        /\ \A i \in 1..(Len(seq) - 1) : seq[i + 1] = seq[i] + step
        /\ \A i \in 1..Len(seq) : IF a < b THEN seq[i] < b ELSE seq[i] > b
        /\ a # b => IF a < b THEN seq[Len(seq)] + step >= b ELSE seq[Len(seq)] + step <= b

\* C14: for integers a and b and a non-zero integer s, the text generated for
\* range(a,b) evaluates to the half-open sequence from a toward b in steps of
\* 1, and the text generated for range(a,b,s) to the one in steps of |s|;
\* range(0,5) is 0,1,2,3,4 and range(5,0) is 5,4,3,2,1.
C14_RangeValue ==
    (rPc = "done" /\ (Len(rArgs) = 3 => rArgs[3] # 0)) =>
        /\ rValue.tag = "return"
        /\ HalfOpen(rValue.value, rArgs[1], rArgs[2],
                    IF Len(rArgs) = 3 THEN Abs(rArgs[3]) ELSE 1)
        /\ rArgs = <<0, 5>> => rValue.value = <<0, 1, 2, 3, 4>>
        /\ rArgs = <<5, 0>> => rValue.value = <<5, 4, 3, 2, 1>>

\* range(5,0,-2) has been generated and evaluated: 5, 3, 1
C14_Witness ==
    rPc = "done" /\ rArgs = <<5, 0, -2>> /\ rValue.tag = "return" /\ rValue.value = <<5, 3, 1>>

----------------------------------------------------------------------------
(* The five passes as functions of the text, and transpile (src/src/transpiler.js) *)

\* the for loop of transformVariables from line i on: the lines of result
RECURSIVE variablesFrom(_, _, _)
variablesFrom(lines, i, declared) ==
    IF i >= Len(lines) THEN <<>>
    ELSE CHOOSE rest \in {<<r.line>> \o variablesFrom(lines, i + 1, r.declared) :
                              r \in {variablesLine(lines[i + 1], declared)}} : TRUE

transformVariables(source) ==
    Join(variablesFrom(Split(replaceConst(source)), 0, {}), "\n")

\* the for loop of transformFunctions from line i on, and the closing loop after it
RECURSIVE functionsFrom(_, _, _)
functionsFrom(lines, i, stack) ==
    IF i >= Len(lines) THEN closeRemaining(stack).closes
    ELSE CHOOSE rest \in {r.pushed \o functionsFrom(lines, i + 1, r.stack) :
                              r \in {functionsLine(lines, i, stack)}} : TRUE

transformFunctions(source) == Join(functionsFrom(Split(source), 0, <<>>), "\n")

\* the for loop of transformCodeBlocks from line i on, and the closing loop after it
RECURSIVE codeBlocksFrom(_, _, _)
codeBlocksFrom(lines, i, stack) ==
    IF i >= Len(lines) THEN closeRemaining(stack).closes
    ELSE CHOOSE rest \in {r.pushed \o codeBlocksFrom(lines, i + 1, r.stack) :
                              r \in {codeBlocksLine(lines, i, stack)}} : TRUE

transformCodeBlocks(source) == Join(codeBlocksFrom(Split(source), 0, <<>>), "\n")

\* the while loop of transformArrays after `pass` passes that all changed the buffer
RECURSIVE arraysFrom(_, _)
arraysFrom(out, passes) ==
    IF passes >= maxPasses THEN out
    ELSE CHOOSE result \in
             {IF Len(ms) > 0 /\ rightmostMatch(ms).replacement # ""
              THEN arraysFrom(applyMatch(out, rightmostMatch(ms)), passes + 1)
              ELSE out : ms \in {allMatches(out)}} : TRUE

transformArrays(source) == arraysFrom(source, 0)

\* the for loop of transformLog with i matches left to process
RECURSIVE logFrom(_, _, _, _)
logFrom(source, out, matches, i) ==
    IF i = 0 THEN out
    ELSE logFrom(source, logStep(source, out, matches[i]), matches, i - 1)

transformLog(source) == logFrom(source, source, logMatches(source), Len(logMatches(source)))

\* C17: the two structural passes commute: running transformCodeBlocks on
\* what transformFunctions returned gives the same text as running
\* transformFunctions on what transformCodeBlocks returns for the same input.
C17_PassesCommute ==
    bPc = "done" =>
        IF bPass = "functions"
        THEN transformCodeBlocks(bRet.value) = transformFunctions(transformCodeBlocks(bSource))
        ELSE transformFunctions(bRet.value) = transformCodeBlocks(transformFunctions(bSource))

TranspileStatements ==
    { "x = a.sum",
      "f():",
      "  log(x)",
      "if (x)",
      "  y = 1",
      "const z = range(1,2)",
      "log(a.sum)" }

MaxTranspileLines == 2

TranspileInputs == Texts(TranspileStatements, MaxTranspileLines)

TranspileIdle ==
    tSource = "" /\ tOutput = "" /\ tPc = "idle" /\ tCalls = <<>> /\ tRet = <<>>

\* let output = source
TranspileInit ==
    /\ tSource \in TranspileInputs
    /\ tOutput = tSource
    /\ tPc = "variables"
    /\ tCalls = <<>>
    /\ tRet = <<>>

\* output = transformVariables(output)
TranspileVariables ==
    /\ tPc = "variables"
    /\ \E out \in {transformVariables(tOutput)} :
           /\ tOutput' = out
           /\ tCalls' = Append(tCalls, [pass |-> "transformVariables", input |-> tOutput, output |-> out])
    /\ tPc' = "functions"
    /\ UNCHANGED <<tSource, tRet>>
    /\ UNCHANGED exceptTranspile

\* output = transformFunctions(output)
TranspileFunctions ==
    /\ tPc = "functions"
    /\ \E out \in {transformFunctions(tOutput)} :
           /\ tOutput' = out
           /\ tCalls' = Append(tCalls, [pass |-> "transformFunctions", input |-> tOutput, output |-> out])
    /\ tPc' = "codeblocks"
    /\ UNCHANGED <<tSource, tRet>>
    /\ UNCHANGED exceptTranspile

\* output = transformCodeBlocks(output)
TranspileCodeBlocks ==
    /\ tPc = "codeblocks"
    /\ \E out \in {transformCodeBlocks(tOutput)} :
           /\ tOutput' = out
           /\ tCalls' = Append(tCalls, [pass |-> "transformCodeBlocks", input |-> tOutput, output |-> out])
    /\ tPc' = "arrays"
    /\ UNCHANGED <<tSource, tRet>>
    /\ UNCHANGED exceptTranspile

\* output = transformArrays(output)
TranspileArrays ==
    /\ tPc = "arrays"
    /\ \E out \in {transformArrays(tOutput)} :
           /\ tOutput' = out
           /\ tCalls' = Append(tCalls, [pass |-> "transformArrays", input |-> tOutput, output |-> out])
    /\ tPc' = "log"
    /\ UNCHANGED <<tSource, tRet>>
    /\ UNCHANGED exceptTranspile

\* transformLog called on source, not on the output of transformArrays
TranspileLogOnSource ==
    /\ tPc = "log"
    /\ \E out \in {transformLog(tSource)} :
           /\ tOutput' = out
           /\ tCalls' = Append(tCalls, [pass |-> "transformLog", input |-> tSource, output |-> out])
    /\ tPc' = "return"
    /\ UNCHANGED <<tSource, tRet>>
    /\ UNCHANGED exceptTranspile

\* output = transformLog(output)
TranspileLog ==
    /\ tPc = "log"
    /\ \E out \in {transformLog(tOutput)} :
           /\ tOutput' = out
           /\ tCalls' = Append(tCalls, [pass |-> "transformLog", input |-> tOutput, output |-> out])
    /\ tPc' = "return"
    /\ UNCHANGED <<tSource, tRet>>
    /\ UNCHANGED exceptTranspile

\* return output
TranspileReturn ==
    /\ tPc = "return"
    /\ tRet' = [tag |-> "return", value |-> tOutput, error |-> ""]
    /\ tPc' = "done"
    /\ UNCHANGED <<tSource, tOutput, tCalls>>
    /\ UNCHANGED exceptTranspile

TranspileNext ==
    \/ TranspileVariables \/ TranspileFunctions \/ TranspileCodeBlocks
    \/ TranspileArrays \/ TranspileLog \/ TranspileReturn

\* C15: when transpile returns it has called the five passes once each, in
\* the order variables, functions, codeblocks, arrays, log, each on the text
\* the one before returned, and it returns what transformLog returned.
C15_PipelineOrder ==
    tPc = "done" =>
        /\ [k \in 1..Len(tCalls) |-> tCalls[k].pass]
               = <<"transformVariables", "transformFunctions", "transformCodeBlocks",
                   "transformArrays", "transformLog">>
        /\ tCalls[1].input = tSource
        /\ \A k \in 1..4 : tCalls[k + 1].input = tCalls[k].output
        /\ tCalls[1].output = transformVariables(tCalls[1].input)
        /\ tCalls[2].output = transformFunctions(tCalls[2].input)
        /\ tCalls[3].output = transformCodeBlocks(tCalls[3].input)
        /\ tCalls[4].output = transformArrays(tCalls[4].input)
        /\ tCalls[5].output = transformLog(tCalls[5].input)
        /\ tRet.value = tCalls[5].output

\* transpile has returned for a function whose body is a log call: the
\* functions pass and the log pass have both rewritten the text
C15_Witness ==
    /\ tPc = "done"
    /\ tSource = "f():\n  log(x)"
    /\ tRet.value = "function f() {\n  console.log('x =>', x)\n}"

----------------------------------------------------------------------------
(* watch of src/src/watcher.js: execute() runs once at the start and once    *)
(* per change event.  execute() is synchronous; a listener is called when no  *)
(* other code runs, one emitted event at a time, in the order of emission.    *)

MaxChangeEvents == 4

\* what the try block can throw: an Error object, which has a message, or a
\* value without properties (throw null, throw undefined in the executed text)
ThrownValues == {"Error", "null"}

WatchIdle ==
    /\ wPc = "idle" /\ wCycle = -1 /\ wFired = 0 /\ wPending = <<>>
    /\ wStarted = <<>> /\ wFinished = <<>> /\ wThrown = "" /\ wEscaped = <<>>

\* watch(inputFile) has created the watcher and calls execute() the first time
WatchInit ==
    /\ wPc = "read" /\ wCycle = 0 /\ wFired = 0 /\ wPending = <<>>
    /\ wStarted = <<0>> /\ wFinished = <<>> /\ wThrown = "" /\ wEscaped = <<>>

\* the file changes: chokidar has one more change event to deliver
ChangeEvent ==
    /\ wPc \notin {"idle", "dead"}
    /\ wFired < MaxChangeEvents
    /\ wFired' = wFired + 1
    /\ wPending' = Append(wPending, wFired + 1)
    /\ UNCHANGED <<wPc, wCycle, wStarted, wFinished, wThrown, wEscaped>>
    /\ UNCHANGED exceptWatch

\* fs.readFileSync(inputFile, 'utf8'): returns the text or throws an Error
WatchRead ==
    /\ wPc = "read"
    /\ \E ok \in BOOLEAN :
           IF ok THEN wPc' = "transpile" /\ wThrown' = wThrown
                 ELSE wPc' = "catch" /\ wThrown' = "Error"
    /\ UNCHANGED <<wCycle, wFired, wPending, wStarted, wFinished, wEscaped>>
    /\ UNCHANGED exceptWatch

\* transpile(source): no statement of the transpiler throws
WatchTranspile ==
    /\ wPc = "transpile"
    /\ wPc' = "execute"
    /\ UNCHANGED <<wCycle, wFired, wPending, wStarted, wFinished, wThrown, wEscaped>>
    /\ UNCHANGED exceptWatch

\* vm.runInContext(compiled, context, ...): the text runs to its end, and
\* execute() returns, or it throws some value
WatchRun ==
    /\ wPc = "execute"
    /\ \E v \in {""} \cup ThrownValues :
           IF v = ""
           THEN /\ wPc' = "waiting" /\ wCycle' = -1
                /\ wFinished' = Append(wFinished, wCycle)
                /\ wThrown' = wThrown
           ELSE /\ wPc' = "catch" /\ wThrown' = v
                /\ UNCHANGED <<wCycle, wFinished>>
    /\ UNCHANGED <<wFired, wPending, wStarted, wEscaped>>
    /\ UNCHANGED exceptWatch

\* the catch block: console.error(..., error.message), then error.stack.
\* Reading a property of null or undefined throws a TypeError: the exception
\* leaves execute().  In the first call it leaves watch() before the change
\* listener is registered; thrown from the listener it goes to the emitter,
\* which ends the process or goes on, as its version and the runtime decide.
WatchCatch ==
    /\ wPc = "catch"
    /\ IF wThrown = "Error"
       THEN /\ wPc' = "waiting"
            /\ wFinished' = Append(wFinished, wCycle)
            /\ wEscaped' = wEscaped
       ELSE /\ wPc' \in (IF wCycle = 0 THEN {"dead"} ELSE {"dead", "waiting"})
            /\ wEscaped' = Append(wEscaped, wCycle)
            /\ wFinished' = wFinished
    /\ wCycle' = -1
    /\ wThrown' = ""
    /\ UNCHANGED <<wFired, wPending, wStarted>>
    /\ UNCHANGED exceptWatch

\* watcher.on('change', ...): the listener is called for the oldest event
\* not delivered yet and calls execute()
WatchChange ==
    /\ wPc = "waiting"
    /\ wPending # <<>>
    /\ wPc' = "read"
    /\ wCycle' = Head(wPending)
    /\ wPending' = Tail(wPending)
    /\ wStarted' = Append(wStarted, Head(wPending))
    /\ UNCHANGED <<wFired, wFinished, wThrown, wEscaped>>
    /\ UNCHANGED exceptWatch

WatchNext ==
    ChangeEvent \/ WatchRead \/ WatchTranspile \/ WatchRun \/ WatchCatch \/ WatchChange

\* C29: in watch mode one cycle runs at the start and one per change event,
\* in event order: the cycles started and the events still to be delivered
\* are the initial call and the change events, in order; at most one cycle
\* is in progress; no exception leaves a cycle, and the watcher stays able to
\* start the cycle of every later event.
C29_WatchCycles ==
    wPc # "idle" =>
        /\ wStarted \o wPending = [k \in 1..(wFired + 1) |-> k - 1]
        /\ Len(wStarted) - (Len(wFinished) + Len(wEscaped)) = (IF wCycle = -1 THEN 0 ELSE 1)
        /\ wEscaped = <<>>
        /\ wPc # "dead"

----------------------------------------------------------------------------
(* Specifications: one component runs, the others are not called *)

InitArrays == ArraysInit /\ LogIdle /\ VariablesIdle /\ BlocksIdle /\ RangeIdle /\ TranspileIdle /\ WatchIdle

SpecArrays == InitArrays /\ [][ArraysNext]_vars

InitArrayCalls ==
    ArrayCallsInit /\ LogIdle /\ VariablesIdle /\ BlocksIdle /\ RangeIdle /\ TranspileIdle /\ WatchIdle

SpecArrayCalls == InitArrayCalls /\ [][ArraysNext]_vars

InitArrayReceivers ==
    ArrayReceiversInit /\ LogIdle /\ VariablesIdle /\ BlocksIdle /\ RangeIdle /\ TranspileIdle /\ WatchIdle

SpecArrayReceivers == InitArrayReceivers /\ [][ArraysNext]_vars

InitArrayPasses ==
    ArrayPassesInit /\ LogIdle /\ VariablesIdle /\ BlocksIdle /\ RangeIdle /\ TranspileIdle /\ WatchIdle

SpecArrayPasses == InitArrayPasses /\ [][ArraysNext]_vars

InitLog == LogInit /\ ArraysIdle /\ VariablesIdle /\ BlocksIdle /\ RangeIdle /\ TranspileIdle /\ WatchIdle

SpecLog == InitLog /\ [][LogNext]_vars

InitVariables == VariablesInit /\ ArraysIdle /\ LogIdle /\ BlocksIdle /\ RangeIdle /\ TranspileIdle /\ WatchIdle

SpecVariables == InitVariables /\ [][VariablesNext]_vars

InitBlocks == BlocksInit /\ ArraysIdle /\ LogIdle /\ VariablesIdle /\ RangeIdle /\ TranspileIdle /\ WatchIdle

SpecBlocks == InitBlocks /\ [][BlocksNext]_vars

InitRange == RangeInit /\ ArraysIdle /\ LogIdle /\ VariablesIdle /\ BlocksIdle /\ TranspileIdle /\ WatchIdle

SpecRange == InitRange /\ [][RangeNext]_vars

InitTranspile ==
    TranspileInit /\ ArraysIdle /\ LogIdle /\ VariablesIdle /\ BlocksIdle /\ RangeIdle /\ WatchIdle

SpecTranspile == InitTranspile /\ [][TranspileNext]_vars

InitWatch ==
    WatchInit /\ ArraysIdle /\ LogIdle /\ VariablesIdle /\ BlocksIdle /\ RangeIdle /\ TranspileIdle

SpecWatch == InitWatch /\ [][WatchNext]_vars

====
